---- MODULE Spec2Model ----
(***************************************************************************)
(* Model of zephyr_mirror_manager.py.                                      *)
(*                                                                         *)
(* Spec:        one run of main, init (with or without --west-yml) or     *)
(*              sync, one step per check, directory operation, resolution  *)
(*              and processed item; the outcomes of git, mkdir and rmtree  *)
(*              are chosen at the step that asks for them.                 *)
(* SpecResolve: parse_west_yml, the URL resolver, one loop iteration of    *)
(*              _recursive_parse_projects per step, the recursion kept as  *)
(*              an explicit stack of call frames. No run of main calls it. *)
(*                                                                         *)
(* Strings that are only compared are TLA+ strings; strings that are built *)
(* (url-base, url) are sequences of tokens, so that rstrip('/') and the    *)
(* concatenation of line 132 are computed.                                 *)
(***************************************************************************)
EXTENDS Integers, Sequences, FiniteSets, TLC

\* ------------------------------------------------------------------------
\* Bounds
\* ------------------------------------------------------------------------

\* project entries of the root manifest and of the nested manifest together
MaxEntries == 3

\* longest "projects" list of the west.yml given to init
MaxLocal == 2

\* ------------------------------------------------------------------------
\* Values of the manifest documents
\* ------------------------------------------------------------------------

\* dict.get(key) of a key the mapping does not have (Python None)
Absent == "<absent>"

Names == {"x", "y"}

Aliases == {"A", "B"}

\* A remotes item: name and url-base; a url-base that is missing or empty is
\* the empty sequence (both are falsy at line 100).
RemoteItem(n, b) == [name |-> n, base |-> b]

\* An import value: absent, a truthy non-mapping (import: true, import: file),
\* or a mapping whose name-allowlist is absent ("none") or a list.
ImportAbsent == [shape |-> "absent", al |-> <<>>]

ImportTrue == [shape |-> "scalar", al |-> <<>>]

ImportAll == [shape |-> "dict", al |-> <<>>]

ImportOnly(al) == [shape |-> "dict", al |-> al]

\* A projects item that is not a mapping (a bare string in the YAML list).
NonDict == [kind |-> "scalar", name |-> Absent, remote |-> Absent,
            repoPath |-> Absent, path |-> Absent, imp |-> ImportAbsent]

Project(n, r, rp, p, im) ==
    [kind |-> "dict", name |-> n, remote |-> r, repoPath |-> rp, path |-> p, imp |-> im]

\* all sequences over S of length at most n
SeqsUpTo(S, n) == UNION {[1..k -> S] : k \in 0..n}

\* ------------------------------------------------------------------------
\* Inputs of the URL resolver
\* ------------------------------------------------------------------------

\* The remotes lists a root manifest is drawn from: both aliases defined (one
\* url-base with a trailing slash), or B declared without url-base.
RootRemotesChoices ==
    { << RemoteItem("A", <<"hA">>), RemoteItem("B", <<"hB", "/">>) >>,
      << RemoteItem("A", <<"hA">>), RemoteItem("B", <<>>) >> }

\* The remotes lists of a nested manifest.
SubRemotesChoices ==
    { << RemoteItem("B", <<"hN">>) >> }

DefaultRemoteChoices == {Absent, "A"}

\* Entries of the root manifest: plain entries, an entry with repo-path,
\* entries named z that declare an import, and a non-mapping item.
RootEntries ==
    {Project("x", r, Absent, Absent, ImportAbsent) : r \in Aliases \cup {Absent}}
    \cup {Project("y", r, Absent, Absent, ImportAbsent) : r \in {Absent, "A"}}
    \cup {Project(Absent, Absent, Absent, Absent, ImportAbsent)}
    \cup {Project("x", "A", "r", Absent, ImportAbsent)}
    \cup {Project("z", "B", Absent, Absent, im) :
            im \in {ImportTrue, ImportAll, ImportOnly(<<"y">>), ImportOnly(<<"x", "y">>)}}
    \cup {Project("z", Absent, Absent, Absent, ImportOnly(<<"x", "y">>))}
    \cup {Project("z", "A", Absent, "sub", ImportOnly(<<"x">>))}
    \cup {NonDict}

\* Entries of a nested manifest: plain entries, an entry that imports the
\* nested manifest again, an entry with import: true, and a non-mapping item.
SubEntries ==
    {Project(n, r, Absent, Absent, ImportAbsent) : n \in Names, r \in {Absent, "B"}}
    \cup {Project(Absent, Absent, Absent, Absent, ImportAbsent)}
    \cup {Project("y", Absent, Absent, Absent, ImportOnly(<<"x", "y">>))}
    \cup {Project("x", Absent, Absent, Absent, ImportTrue)}
    \cup {NonDict}

\* What <root dir>/<path>/west.yml is: no such file, a file yaml cannot
\* load, or a manifest.
Missing == [state |-> "missing", remotes |-> <<>>, projects |-> <<>>]

Unparsable == [state |-> "unparsable", remotes |-> <<>>, projects |-> <<>>]

Manifest(rs, ps) == [state |-> "ok", remotes |-> rs, projects |-> ps]

\* the files with at most n project entries
SubFiles(n) ==
    {Missing, Unparsable}
    \cup {Manifest(rs, ps) : rs \in SubRemotesChoices, ps \in SeqsUpTo(SubEntries, n)}

Paths == {"zephyr", "sub"}

\* ------------------------------------------------------------------------
\* State
\* ------------------------------------------------------------------------

VARIABLES
    remotes_list,     \* manifest["remotes"] of the root document
    default_remote,   \* manifest.get("default-remote")
    root_projects,    \* manifest["projects"] of the root document
    fs,               \* path -> the west.yml under <root dir>/<path>
    remotes,          \* the alias table of lines 95-101 (alias -> url-base)
    all_projects,     \* the result list
    processed_names,  \* the seen-set
    stack,            \* the call frames of _recursive_parse_projects
    rpc,              \* "start", "walk", "done" (returned) or "raised"
    walk,             \* history: the entries the for loop visited, in order
    src               \* history: for each element of all_projects, where it came from

resolveVars == <<remotes_list, default_remote, root_projects, fs, remotes,
                 all_projects, processed_names, stack, rpc, walk, src>>

VARIABLES
    command,          \* args.command: "init" or "sync" ("none": no run)
    west_yml,         \* init: --west-yml was given
    clean_old,        \* init: --clean-old
    skip_repos,       \* sync: --skip-repos
    is_root,          \* the cwd holds .west/ and zephyr/
    git_ok,           \* git --version runs
    cwd_repos,        \* the working copies under the cwd
    local_manifest,   \* the file --west-yml names
    work_copies,      \* the paths p for which p and p/.git exist
    root_exists,      \* mirror_root_path exists
    repos_exists,     \* mirror_repos_dir exists
    mirror_items,     \* the items of mirror_repos_dir
    before,           \* history: the three above when the run started
    pc,               \* the position of the run
    exit_code,        \* the exit status, Running until the process ends
    proj_list,        \* init: the list of parse_west_yml_for_local
    bare_repos,       \* sync: the list of find_bare_repos
    idx,              \* the position of the for loop over proj_list / bare_repos
    success_count,
    log               \* history: what the run did, in order

argVars == <<command, west_yml, clean_old, skip_repos>>

envVars == <<is_root, git_ok, cwd_repos, local_manifest, work_copies, before>>

dirVars == <<root_exists, repos_exists, mirror_items>>

runVars == <<pc, exit_code, proj_list, bare_repos, idx, success_count, log>>

mainVars == <<argVars, envVars, dirVars, runVars>>

vars == <<resolveVars, mainVars>>

\* ------------------------------------------------------------------------
\* parse_west_yml: pure helpers
\* ------------------------------------------------------------------------

\* str.rstrip('/') on a token sequence
RECURSIVE RStrip(_)
RStrip(s) ==
    IF s # <<>> /\ s[Len(s)] = "/" THEN RStrip(SubSeq(s, 1, Len(s) - 1)) ELSE s

\* lines 95-101: the alias table of a remotes list; an item without name or
\* url-base is left out, a later item of the same name overwrites.
RECURSIVE BuildRemotes_NoBaseCheck(_, _)
BuildRemotes_NoBaseCheck(list, acc) ==
    IF list = <<>> THEN acc
    ELSE LET r == Head(list)
             next == IF r.name # Absent
                     THEN [n \in (DOMAIN acc) \cup {r.name} |->
                             IF n = r.name THEN r.base ELSE acc[n]]
                     ELSE acc
         IN BuildRemotes_NoBaseCheck(Tail(list), next)

RECURSIVE BuildRemotes(_, _)
BuildRemotes(list, acc) ==
    IF list = <<>> THEN acc
    ELSE LET r == Head(list)
             next == IF r.name # Absent /\ r.base # <<>>
                     THEN [n \in (DOMAIN acc) \cup {r.name} |->
                             IF n = r.name THEN r.base ELSE acc[n]]
                     ELSE acc
         IN BuildRemotes(Tail(list), next)

EmptyTable == [n \in {} |-> <<>>]

\* the table of a remotes list (lines 95-101)
RemotesOf(list) == BuildRemotes(list, EmptyTable)

\* line 112: the entry is skipped without a word
IsSkipped_NoDedup(proj) == proj.kind # "dict"

IsSkipped(proj) == proj.kind # "dict" \/ proj.name \in processed_names

\* line 121: proj.get("remote", parent_remote or default_remote)
ProjRemote_NoInherit(proj, parent_remote) ==
    IF proj.remote # Absent THEN proj.remote ELSE default_remote

ProjRemote(proj, parent_remote) ==
    IF proj.remote # Absent THEN proj.remote
    ELSE IF parent_remote # Absent THEN parent_remote
    ELSE default_remote

\* lines 130-132: f"{url_base.rstrip('/')}/{repo_path}.git"
ProjUrl(proj, table, proj_remote) ==
    LET repo_path == IF proj.repoPath # Absent THEN proj.repoPath ELSE proj.name
    IN RStrip(table[proj_remote]) \o <<"/", repo_path, ".git">>

\* lines 147-148: the import is followed only for a non-empty allow-list
HasAllowlist(import_config) == import_config.al # <<>>

InList(n, list) == \E k \in 1..Len(list) : list[k] = n

\* line 158: [p for p in sub_projects if p.get("name") in allowlist]
FilterSubProjects_All(sub_projects, allowlist) == sub_projects

FilterSubProjects(sub_projects, allowlist) ==
    SelectSeq(sub_projects, LAMBDA p : InList(p.name, allowlist))

\* line 150: Path(west_yml_path).parent / proj.get("path", "zephyr")
SubPath(proj) == IF proj.path # Absent THEN proj.path ELSE "zephyr"

\* ------------------------------------------------------------------------
\* parse_west_yml: the walk
\* ------------------------------------------------------------------------

\* exit_code while the process runs; <<n>> once it has ended with status n
Running == <<>>

\* no init or sync run: parse_west_yml is called by neither
NoRun ==
    /\ command = "none"
    /\ west_yml = FALSE
    /\ clean_old = FALSE
    /\ skip_repos = {}
    /\ is_root = FALSE
    /\ git_ok = FALSE
    /\ cwd_repos = {}
    /\ local_manifest = Missing
    /\ work_copies = {}
    /\ root_exists = FALSE
    /\ repos_exists = FALSE
    /\ mirror_items = {}
    /\ before = [root_exists |-> FALSE, repos_exists |-> FALSE, mirror_items |-> {}]
    /\ pc = "none"
    /\ exit_code = Running
    /\ proj_list = <<>>
    /\ bare_repos = <<>>
    /\ idx = 1
    /\ success_count = 0
    /\ log = <<>>

\* A call of _recursive_parse_projects(projects, parent_remote): i is the
\* position of the for loop. by and doc are history: the element of
\* all_projects whose import made the call (0 for the call of line 164) and
\* the document the list was read from.
Frame(projects, parent_remote, by, doc) ==
    [projs |-> projects, i |-> 1, parent |-> parent_remote, by |-> by, doc |-> doc]

\* The root west.yml exists and loads (lines 81-91 passed); zephyr/west.yml
\* is any of SubFiles, sub/west.yml does not exist.
InitResolve ==
    /\ remotes_list \in RootRemotesChoices
    /\ default_remote \in DefaultRemoteChoices
    /\ root_projects \in SeqsUpTo(RootEntries, MaxEntries)
    /\ \E z \in SubFiles(MaxEntries - Len(root_projects)) :
           fs = [p \in Paths |-> IF p = "zephyr" THEN z ELSE Missing]
    /\ remotes = EmptyTable
    /\ all_projects = <<>>
    /\ processed_names = {}
    /\ stack = <<>>
    /\ rpc = "start"
    /\ walk = <<>>
    /\ src = <<>>
    /\ NoRun

inputVars == <<remotes_list, default_remote, root_projects, fs>>

\* lines 93-106 and the call of line 164
ParseRoot ==
    /\ rpc = "start"
    /\ remotes' = RemotesOf(remotes_list)
    /\ stack' = <<Frame(root_projects, Absent, 0, "root")>>
    /\ rpc' = "walk"
    /\ UNCHANGED <<inputVars, all_projects, processed_names, walk, src, mainVars>>

Cur == stack[Len(stack)]

proj == Cur.projs[Cur.i]

proj_remote == ProjRemote(proj, Cur.parent)

\* the for loop of line 110 has an entry to look at
AtEntry == rpc = "walk" /\ stack # <<>> /\ Cur.i <= Len(Cur.projs)

Advanced == [stack EXCEPT ![Len(stack)].i = @ + 1]

Visit ==
    walk' = Append(walk, [entry |-> proj, parent |-> Cur.parent,
                          depth |-> Len(stack), by |-> Cur.by])

\* lines 112-113
SkipEntry ==
    /\ AtEntry
    /\ IsSkipped(proj)
    /\ Visit
    /\ stack' = Advanced
    /\ UNCHANGED <<inputVars, remotes, all_projects, processed_names, rpc, src, mainVars>>

\* lines 115-118
SkipNoName ==
    /\ AtEntry
    /\ ~IsSkipped(proj)
    /\ proj.name = Absent
    /\ Visit
    /\ stack' = Advanced
    /\ UNCHANGED <<inputVars, remotes, all_projects, processed_names, rpc, src, mainVars>>

\* lines 121-124
SkipNoRemote ==
    /\ AtEntry
    /\ ~IsSkipped(proj)
    /\ proj.name # Absent
    /\ proj_remote = Absent
    /\ Visit
    /\ stack' = Advanced
    /\ UNCHANGED <<inputVars, remotes, all_projects, processed_names, rpc, src, mainVars>>

\* lines 125-127
SkipUndefinedRemote ==
    /\ AtEntry
    /\ ~IsSkipped(proj)
    /\ proj.name # Absent
    /\ proj_remote # Absent
    /\ proj_remote \notin DOMAIN remotes
    /\ Visit
    /\ stack' = Advanced
    /\ UNCHANGED <<inputVars, remotes, all_projects, processed_names, rpc, src, mainVars>>

\* the entry passes lines 112-127
Resolves ==
    /\ AtEntry
    /\ ~IsSkipped(proj)
    /\ proj.name # Absent
    /\ proj_remote # Absent
    /\ proj_remote \in DOMAIN remotes

\* RecordAs, as if line 140 did not add the name to the seen-set
RecordAs_NoSeen(call) ==
    /\ Visit
    /\ all_projects' = Append(all_projects,
           [name |-> proj.name, remote |-> proj_remote,
            url |-> ProjUrl(proj, remotes, proj_remote)])
    /\ processed_names' = processed_names
    /\ src' = Append(src, [entry |-> proj, by |-> Cur.by, doc |-> Cur.doc,
                           call |-> call])

\* lines 130-141; call: the import of the entry is followed (line 159)
RecordAs(call) ==
    /\ Visit
    /\ all_projects' = Append(all_projects,
           [name |-> proj.name, remote |-> proj_remote,
            url |-> ProjUrl(proj, remotes, proj_remote)])
    /\ processed_names' = processed_names \cup {proj.name}
    /\ src' = Append(src, [entry |-> proj, by |-> Cur.by, doc |-> Cur.doc,
                           call |-> call])

\* lines 135-140 of an entry that makes no recursive call
Record == RecordAs(FALSE)

\* lines 130-145, import absent or an empty mapping
EmitPlain ==
    /\ Resolves
    /\ proj.imp.shape = "absent"
    /\ Record
    /\ stack' = Advanced
    /\ UNCHANGED <<inputVars, remotes, rpc, mainVars>>

\* lines 130-147 in the call of line 164: import is truthy and no mapping,
\* import_config.get raises AttributeError outside any try
EmitImportRaisesRoot ==
    /\ Resolves
    /\ proj.imp.shape = "scalar"
    /\ Len(stack) = 1
    /\ Record
    /\ stack' = <<>>
    /\ rpc' = "raised"
    /\ UNCHANGED <<inputVars, remotes, mainVars>>

\* the same in a nested call: the AttributeError leaves the call and is
\* caught by the except of line 160 of the calling frame
EmitImportRaisesNested ==
    /\ Resolves
    /\ proj.imp.shape = "scalar"
    /\ Len(stack) > 1
    /\ Record
    /\ stack' = SubSeq(stack, 1, Len(stack) - 1)
    /\ UNCHANGED <<inputVars, remotes, rpc, mainVars>>

\* lines 130-148: a mapping whose name-allowlist is absent or empty
EmitImportIgnored ==
    /\ Resolves
    /\ proj.imp.shape = "dict"
    /\ ~HasAllowlist(proj.imp)
    /\ Record
    /\ stack' = Advanced
    /\ UNCHANGED <<inputVars, remotes, rpc, mainVars>>

\* lines 130-152: the nested west.yml does not exist
EmitImportMissing ==
    /\ Resolves
    /\ proj.imp.shape = "dict"
    /\ HasAllowlist(proj.imp)
    /\ fs[SubPath(proj)].state = "missing"
    /\ Record
    /\ stack' = Advanced
    /\ UNCHANGED <<inputVars, remotes, rpc, mainVars>>

\* lines 130-161: yaml.safe_load raises, or the list holds an item without
\* .get (line 158); the except of line 160 logs it
EmitImportFails ==
    /\ Resolves
    /\ proj.imp.shape = "dict"
    /\ HasAllowlist(proj.imp)
    /\ LET f == fs[SubPath(proj)]
       IN \/ f.state = "unparsable"
          \/ f.state = "ok" /\ \E k \in 1..Len(f.projects) : f.projects[k].kind # "dict"
    /\ Record
    /\ stack' = Advanced
    /\ UNCHANGED <<inputVars, remotes, rpc, mainVars>>

\* lines 130-159: the recursive call on the filtered list
EmitImportRecurse ==
    /\ Resolves
    /\ proj.imp.shape = "dict"
    /\ HasAllowlist(proj.imp)
    /\ LET f == fs[SubPath(proj)]
       IN /\ f.state = "ok"
          /\ \A k \in 1..Len(f.projects) : f.projects[k].kind = "dict"
          /\ stack' = Append(Advanced,
                 Frame(FilterSubProjects(f.projects, proj.imp.al), proj_remote,
                       Len(all_projects) + 1, SubPath(proj)))
    /\ RecordAs(TRUE)
    /\ UNCHANGED <<inputVars, remotes, rpc, mainVars>>

\* the for loop of a call ends: back in the caller, or line 171
Return ==
    /\ rpc = "walk"
    /\ stack # <<>>
    /\ Cur.i > Len(Cur.projs)
    /\ stack' = SubSeq(stack, 1, Len(stack) - 1)
    /\ rpc' = IF Len(stack) = 1 THEN "done" ELSE rpc
    /\ UNCHANGED <<inputVars, remotes, all_projects, processed_names, walk, src, mainVars>>

NextResolve ==
    \/ ParseRoot
    \/ SkipEntry
    \/ SkipNoName
    \/ SkipNoRemote
    \/ SkipUndefinedRemote
    \/ EmitPlain
    \/ EmitImportRaisesRoot
    \/ EmitImportRaisesNested
    \/ EmitImportIgnored
    \/ EmitImportMissing
    \/ EmitImportFails
    \/ EmitImportRecurse
    \/ Return

SpecResolve == InitResolve /\ [][NextResolve]_vars

\* ------------------------------------------------------------------------
\* Claims about parse_west_yml (checked under SpecResolve)
\* ------------------------------------------------------------------------

Results == 1..Len(all_projects)

Visited == 1..Len(walk)

\* a visited entry, read as the loop body reads it
OccAlias(w) ==
    IF w.entry.remote # Absent THEN w.entry.remote
    ELSE IF w.parent # Absent THEN w.parent
    ELSE default_remote

OccResolves(w) ==
    /\ w.entry.kind = "dict"
    /\ w.entry.name # Absent
    /\ OccAlias(w) # Absent
    /\ OccAlias(w) \in DOMAIN remotes

OccUrl(w) ==
    RStrip(remotes[OccAlias(w)])
        \o <<"/", IF w.entry.repoPath # Absent THEN w.entry.repoPath ELSE w.entry.name, ".git">>

NoDuplicateNames ==
    \A i, j \in Results : i # j => all_projects[i].name # all_projects[j].name

\* the first visit of an entry named n
FirstOcc(n) ==
    CHOOSE k \in Visited :
        /\ walk[k].entry.name = n
        /\ \A j \in 1..(k - 1) : walk[j].entry.name # n

\* the first visit of an entry named n that passes lines 112-127
FirstResolvingOcc(n) ==
    CHOOSE k \in Visited :
        /\ walk[k].entry.name = n /\ OccResolves(walk[k])
        /\ \A j \in 1..(k - 1) : ~(walk[j].entry.name = n /\ OccResolves(walk[j]))

\* C1 as stated: no name twice in the result, and the url of every result is
\* the one computed from the first pre-order occurrence of its name.
C1_FirstOccurrenceWins ==
    /\ NoDuplicateNames
    /\ \A r \in Results :
          LET w == walk[FirstOcc(all_projects[r].name)]
          IN OccResolves(w) /\ all_projects[r].url = OccUrl(w)

\* C1 amended: no name twice in the result, and the url of every result is
\* the one computed from the first pre-order occurrence of its name that has a
\* name and an alias of the alias table; an earlier occurrence that was
\* skipped for its alias does not keep a later one out, and later occurrences
\* neither overwrite the entry nor add one.
C1_FirstResolvedOccurrenceWins ==
    /\ NoDuplicateNames
    /\ \A r \in Results :
          /\ \E k \in Visited :
                walk[k].entry.name = all_projects[r].name /\ OccResolves(walk[k])
          /\ all_projects[r].url = OccUrl(walk[FirstResolvingOcc(all_projects[r].name)])
    /\ \A k \in Visited :
          OccResolves(walk[k]) => \E r \in Results : all_projects[r].name = walk[k].entry.name

\* a name met at the top level and again through an import, both occurrences
\* resolving to different urls, after the walk has returned
C1_Witness ==
    /\ rpc = "done"
    /\ \E i, j \in Visited :
          /\ i < j
          /\ walk[i].depth = 1 /\ walk[j].depth > 1
          /\ walk[i].entry.name = walk[j].entry.name
          /\ OccResolves(walk[i]) /\ OccResolves(walk[j])
          /\ OccUrl(walk[i]) # OccUrl(walk[j])

\* the alias the rule of C2 gives the r-th result: its own, else the one of
\* the result whose import led to it, else the global default
RuleAlias(r) ==
    IF src[r].entry.remote # Absent THEN src[r].entry.remote
    ELSE IF src[r].by # 0 THEN all_projects[src[r].by].remote
    ELSE default_remote

\* C2: every result carries the alias of the rule (own, else the importing
\* entry's effective alias, else the global default) and its url is built
\* from that alias's url-base; a nested entry without alias takes the
\* importing entry's alias, not the default.
C2_AliasInheritance ==
    \A r \in Results :
        /\ all_projects[r].remote = RuleAlias(r)
        /\ RuleAlias(r) \in DOMAIN remotes
        /\ all_projects[r].url =
              RStrip(remotes[RuleAlias(r)])
                 \o <<"/", IF src[r].entry.repoPath # Absent THEN src[r].entry.repoPath
                           ELSE src[r].entry.name, ".git">>
        /\ (src[r].by # 0 /\ src[r].entry.remote = Absent)
              => all_projects[r].remote = all_projects[src[r].by].remote

\* a nested entry without alias was resolved through an importing entry whose
\* alias is not the (defined) global default
C2_Witness ==
    \E r \in Results :
        /\ src[r].by # 0
        /\ src[r].entry.remote = Absent
        /\ default_remote \in DOMAIN remotes
        /\ all_projects[src[r].by].remote # default_remote
        /\ RStrip(remotes[default_remote]) # RStrip(remotes[all_projects[src[r].by].remote])

\* the root entries, as the walk met them
RootVisits == SelectSeq(walk, LAMBDA w : w.depth = 1)

\* C3: a result added through an import has its name in that import's
\* allow-list, the list of a nested call is the nested document filtered by
\* that allow-list alone, and the allow-list filters nothing of the root
\* document: when the walk returns every root entry was visited, in order.
C3_AllowlistFilters ==
    /\ \A r \in Results :
          src[r].by # 0 => InList(all_projects[r].name, src[src[r].by].entry.imp.al)
    /\ \A d \in 2..Len(stack) :
          LET al == src[stack[d].by].entry.imp.al
              doc == fs[stack[d].doc].projects
              kept == {k \in 1..Len(doc) : InList(doc[k].name, al)}
          IN /\ Len(stack[d].projs) = Cardinality(kept)
             /\ \A k \in 1..Len(stack[d].projs) : InList(stack[d].projs[k].name, al)
    /\ rpc = "done" =>
          /\ Len(RootVisits) = Len(root_projects)
          /\ \A k \in 1..Len(root_projects) : RootVisits[k].entry = root_projects[k]

\* an import with allow-list [y] of a nested document that holds x and y
\* was followed and the walk has returned: y came through it and x is in no
\* result
C3_Witness ==
    /\ rpc = "done"
    /\ \E r \in Results :
          /\ src[r].by # 0
          /\ src[src[r].by].entry.imp.al = <<"y">>
          /\ all_projects[r].name = "y"
          /\ \E k \in 1..Len(fs[src[r].doc].projects) :
                /\ fs[src[r].doc].projects[k].name = "x"
                /\ fs[src[r].doc].projects[k].remote = "B"
          /\ "x" \notin processed_names

\* C4 as stated: when an emitted entry declares an import without allow-list
\* and the nested manifest parses, every nested entry with a name and a
\* resolvable alias is in the result when the walk returns.
C4_ImportEverything ==
    rpc = "done" =>
        \A r \in Results :
            LET e == src[r].entry
                f == fs[SubPath(e)]
            IN (e.imp.shape = "dict" /\ e.imp.al = <<>> /\ f.state = "ok") =>
                  \A k \in 1..Len(f.projects) :
                      LET p == f.projects[k]
                          a == IF p.remote # Absent THEN p.remote ELSE all_projects[r].remote
                      IN (p.kind = "dict" /\ p.name # Absent /\ a \in DOMAIN remotes)
                            => p.name \in processed_names

\* no root entry declares an import
NoImports == \A k \in 1..Len(root_projects) : root_projects[k].imp.shape = "absent"

\* the alias is in the alias table of the root manifest
InAliasTable(a) ==
    \E k \in 1..Len(remotes_list) :
        remotes_list[k].name = a /\ remotes_list[k].name # Absent /\ remotes_list[k].base # <<>>

\* the root entries with a non-empty name and an effective alias of the table
Countable ==
    {k \in 1..Len(root_projects) :
        LET e == root_projects[k]
        IN /\ e.kind = "dict"
           /\ e.name # Absent
           /\ InAliasTable(IF e.remote # Absent THEN e.remote ELSE default_remote)}

\* C5 as stated: without imports, the length of the result is the number of
\* entries with a non-empty name and an effective alias of the alias table.
C5_LengthIsEntryCount ==
    (rpc = "done" /\ NoImports) => Len(all_projects) = Cardinality(Countable)

\* C5 amended: without imports, the length of the result is the number of
\* distinct names among the entries with a non-empty name and an effective
\* alias of the alias table (for pairwise distinct names: the number of
\* such entries).
C5_LengthIsNameCount ==
    (rpc = "done" /\ NoImports) =>
        Len(all_projects) = Cardinality({root_projects[k].name : k \in Countable})

\* a manifest without imports, with a counted entry, an entry left out for
\* its alias and one left out for its name, after the walk has returned
C5_Witness ==
    /\ rpc = "done"
    /\ NoImports
    /\ Len(all_projects) = 1
    /\ Cardinality(Countable) = 1
    /\ \E k \in 1..Len(root_projects) :
          root_projects[k].name # Absent /\ k \notin Countable
    /\ \E k \in 1..Len(root_projects) :
          root_projects[k].kind = "dict" /\ root_projects[k].name = Absent

\* C7 as stated: the resolver returns a list and never raises, whatever the
\* entries, and every root entry is walked.
C7_NeverRaises ==
    /\ rpc # "raised"
    /\ rpc = "done" => Len(RootVisits) = Len(root_projects)

\* C8 as stated: an entry of a nested manifest is resolved against the
\* nested document's own remotes: its alias is defined there and its url is
\* built from the url-base given there.
C8_NestedAliasTable ==
    \A r \in Results :
        src[r].by # 0 =>
            LET t == RemotesOf(fs[src[r].doc].remotes)
            IN /\ all_projects[r].remote \in DOMAIN t
               /\ all_projects[r].url = ProjUrl(src[r].entry, t, all_projects[r].remote)

\* ------------------------------------------------------------------------
\* main: init_mirror and sync_mirror, inputs
\* ------------------------------------------------------------------------

\* f"{repo_name}.git"
GitName(repo_name) == <<repo_name, ".git">>

\* an item of mirror_repos_dir: its name and whether it is a directory
Item(name, dir) == [name |-> name, dir |-> dir]

\* what mirror_repos_dir may hold before the run
ItemPool ==
    { Item(GitName("x"), TRUE), Item(GitName("y"), TRUE), Item(GitName("z"), TRUE),
      Item(<<"notes">>, TRUE), Item(GitName("f"), FALSE) }

SkipPool == {GitName("x"), GitName("f")}

\* entries of the west.yml given to init
LocalEntries ==
    {Project(n, Absent, Absent, p, ImportAbsent) : n \in Names, p \in {Absent, "p"}}
    \cup {Project(Absent, Absent, Absent, Absent, ImportAbsent)}
    \cup {NonDict}

LocalPaths == {"x", "y", "p"}

LocalFiles ==
    {Missing, Unparsable} \cup {Manifest(<<>>, ps) : ps \in SeqsUpTo(LocalEntries, MaxLocal)}

\* ------------------------------------------------------------------------
\* main: pure helpers
\* ------------------------------------------------------------------------

\* lines 351-366: the loop of parse_west_yml_for_local
RECURSIVE LocalProjects(_)
LocalProjects(projects) ==
    IF projects = <<>> THEN <<>>
    ELSE LET p == Head(projects)
         IN IF p.kind # "dict" \/ p.name = Absent
            THEN LocalProjects(Tail(projects))
            ELSE <<[name |-> p.name, path |-> IF p.path # Absent THEN p.path ELSE p.name]>>
                     \o LocalProjects(Tail(projects))

\* lines 335-345, 373: [] for a missing file or a YAML error
ParseWestYmlForLocal(file) ==
    IF file.state = "ok" THEN LocalProjects(file.projects) ELSE <<>>

\* item.name.endswith(".git")
EndsWithGit(name) == name # <<>> /\ name[Len(name)] = ".git"

\* lines 587-594: the items find_bare_repos keeps
IsCandidate_NoSkip(item, skip) == item.dir /\ EndsWithGit(item.name)

IsCandidate(item, skip) ==
    item.dir /\ EndsWithGit(item.name) /\ item.name \notin skip

\* the orders iterdir may list a set of items in
Orders(S) ==
    {q \in [1..Cardinality(S) -> S] : \A i, j \in 1..Cardinality(S) : i # j => q[i] # q[j]}

\* line 623: the bare check passes
BareCheckPasses(success, stdout) == success /\ stdout = "true"

Event(op, target, res) == [op |-> op, target |-> target, res |-> res]

NoTarget == <<>>

\* ------------------------------------------------------------------------
\* main: the run
\* ------------------------------------------------------------------------

\* parse_west_yml is not called by init or sync
NoResolve ==
    /\ remotes_list = <<>>
    /\ default_remote = Absent
    /\ root_projects = <<>>
    /\ fs = [p \in Paths |-> Missing]
    /\ remotes = EmptyTable
    /\ all_projects = <<>>
    /\ processed_names = {}
    /\ stack = <<>>
    /\ rpc = "none"
    /\ walk = <<>>
    /\ src = <<>>

Init ==
    /\ NoResolve
    /\ command \in {"init", "sync"}
    /\ west_yml \in (IF command = "init" THEN BOOLEAN ELSE {FALSE})
    /\ clean_old \in (IF command = "init" THEN BOOLEAN ELSE {FALSE})
    /\ skip_repos \in (IF command = "sync" THEN SUBSET SkipPool ELSE {{}})
    /\ is_root \in (IF command = "init" THEN BOOLEAN ELSE {FALSE})
    /\ git_ok \in BOOLEAN
    /\ cwd_repos \in (IF command = "init" /\ ~west_yml THEN SUBSET {"a"} ELSE {{}})
    /\ local_manifest \in (IF west_yml THEN LocalFiles ELSE {Missing})
    /\ work_copies \in (IF west_yml THEN SUBSET LocalPaths ELSE {{}})
    /\ root_exists \in BOOLEAN
    /\ repos_exists \in (IF root_exists THEN BOOLEAN ELSE {FALSE})
    /\ mirror_items \in (IF repos_exists THEN SUBSET ItemPool ELSE {{}})
    /\ before = [root_exists |-> root_exists, repos_exists |-> repos_exists,
                 mirror_items |-> mirror_items]
    /\ pc = "main"
    /\ exit_code = Running
    /\ proj_list = <<>>
    /\ bare_repos = <<>>
    /\ idx = 1
    /\ success_count = 0
    /\ log = <<>>

Logged(op, target, res) == log' = Append(log, Event(op, target, res))

\* sys.exit(n), or the end of main (status 0)
Exit(n) == pc' = "exited" /\ exit_code' = <<n>>

\* lines 780-791
Dispatch ==
    /\ pc = "main"
    /\ pc' = IF command = "init" THEN "check_root" ELSE "ensure_root"
    /\ UNCHANGED <<resolveVars, argVars, envVars, dirVars,
                   exit_code, proj_list, bare_repos, idx, success_count, log>>

\* lines 459-461, is_zephyr_root_directory holds
CheckRootOk ==
    /\ pc = "check_root"
    /\ is_root
    /\ pc' = "git"
    /\ Logged("root_check", NoTarget, "ok")
    /\ UNCHANGED <<resolveVars, argVars, envVars, dirVars,
                   exit_code, proj_list, bare_repos, idx, success_count>>

\* lines 459-461, it does not
CheckRootFail ==
    /\ pc = "check_root"
    /\ ~is_root
    /\ Exit(1)
    /\ Logged("root_check", NoTarget, "fatal")
    /\ UNCHANGED <<resolveVars, argVars, envVars, dirVars,
                   proj_list, bare_repos, idx, success_count>>

\* lines 474, 523, 672: check_git_env returns True
CheckGitOk ==
    /\ pc = "git"
    /\ git_ok
    /\ pc' = IF command = "init" THEN "clean" ELSE "find"
    /\ Logged("git_check", NoTarget, "ok")
    /\ UNCHANGED <<resolveVars, argVars, envVars, dirVars,
                   exit_code, proj_list, bare_repos, idx, success_count>>

\* lines 474-475, 523-524, 672-673
CheckGitFail ==
    /\ pc = "git"
    /\ ~git_ok
    /\ Exit(1)
    /\ Logged("git_check", NoTarget, "fatal")
    /\ UNCHANGED <<resolveVars, argVars, envVars, dirVars,
                   proj_list, bare_repos, idx, success_count>>

\* lines 478, 527: nothing to clean
CleanSkip ==
    /\ pc = "clean"
    /\ ~(clean_old /\ repos_exists)
    /\ pc' = "ensure_root"
    /\ UNCHANGED <<resolveVars, argVars, envVars, dirVars,
                   exit_code, proj_list, bare_repos, idx, success_count, log>>

\* lines 478-481, 527-530: rmtree removes the whole tree
CleanAll ==
    /\ pc = "clean"
    /\ clean_old /\ repos_exists
    /\ repos_exists' = FALSE
    /\ mirror_items' = {}
    /\ pc' = "ensure_root"
    /\ Logged("rmtree", NoTarget, "ok")
    /\ UNCHANGED <<resolveVars, argVars, envVars, root_exists,
                   exit_code, proj_list, bare_repos, idx, success_count>>

\* lines 478-484, 527-533: rmtree meets an error and leaves the directory
\* with some of its items; ignored with --west-yml (ignore_errors=True),
\* an exception and exit 1 without
CleanPartly ==
    /\ pc = "clean"
    /\ clean_old /\ repos_exists
    /\ \E kept \in SUBSET mirror_items : mirror_items' = kept
    /\ IF west_yml
       THEN pc' = "ensure_root" /\ exit_code' = exit_code
            /\ Logged("rmtree", NoTarget, "ignored")
       ELSE Exit(1) /\ Logged("rmtree", NoTarget, "fatal")
    /\ UNCHANGED <<resolveVars, argVars, envVars, root_exists, repos_exists,
                   proj_list, bare_repos, idx, success_count>>

\* lines 487, 536, 664 with 313-316: the directory exists or mkdir makes it
EnsureRootOk ==
    /\ pc = "ensure_root"
    /\ root_exists' = TRUE
    /\ pc' = "ensure_repos"
    /\ IF root_exists THEN log' = log ELSE Logged("mkdir", <<"root">>, "ok")
    /\ UNCHANGED <<resolveVars, argVars, envVars, repos_exists, mirror_items,
                   exit_code, proj_list, bare_repos, idx, success_count>>

\* lines 487-488, 536-537, 664-665 with 317-323: mkdir raises
EnsureRootFail ==
    /\ pc = "ensure_root"
    /\ ~root_exists
    /\ Exit(1)
    /\ Logged("mkdir", <<"root">>, "fatal")
    /\ UNCHANGED <<resolveVars, argVars, envVars, dirVars,
                   proj_list, bare_repos, idx, success_count>>

\* lines 489, 538, 666 with 313-316
EnsureReposOk ==
    /\ pc = "ensure_repos"
    /\ repos_exists' = TRUE
    /\ pc' = IF command = "init" THEN "resolve" ELSE "git"
    /\ IF repos_exists THEN log' = log ELSE Logged("mkdir", <<"repos">>, "ok")
    /\ UNCHANGED <<resolveVars, argVars, envVars, root_exists, mirror_items,
                   exit_code, proj_list, bare_repos, idx, success_count>>

\* lines 489-490, 538-539, 666-667 with 317-323
EnsureReposFail ==
    /\ pc = "ensure_repos"
    /\ ~repos_exists
    /\ Exit(1)
    /\ Logged("mkdir", <<"repos">>, "fatal")
    /\ UNCHANGED <<resolveVars, argVars, envVars, dirVars,
                   proj_list, bare_repos, idx, success_count>>

\* lines 493-500: parse_west_yml_for_local returns a non-empty list
ResolveLocalOk ==
    /\ pc = "resolve"
    /\ west_yml
    /\ ParseWestYmlForLocal(local_manifest) # <<>>
    /\ proj_list' = ParseWestYmlForLocal(local_manifest)
    /\ idx' = 1
    /\ success_count' = 0
    /\ pc' = "loop"
    /\ UNCHANGED <<resolveVars, argVars, envVars, dirVars, exit_code, bare_repos, log>>

\* lines 493-497: it returns []
ResolveLocalEmpty ==
    /\ pc = "resolve"
    /\ west_yml
    /\ ParseWestYmlForLocal(local_manifest) = <<>>
    /\ Exit(1)
    /\ Logged("resolve", NoTarget, "fatal")
    /\ UNCHANGED <<resolveVars, argVars, envVars, dirVars,
                   proj_list, bare_repos, idx, success_count>>

\* line 543: find_git_repos(start_dir_path, skip_dirs) gives two of the three
\* positional parameters of line 228; the TypeError is caught at line 800 and
\* the process exits 1 (line 802)
FindGitReposRaises ==
    /\ pc = "resolve"
    /\ ~west_yml
    /\ Exit(1)
    /\ Logged("find_git_repos", NoTarget, "TypeError")
    /\ UNCHANGED <<resolveVars, argVars, envVars, dirVars,
                   proj_list, bare_repos, idx, success_count>>

InLoop(cmd, list) == pc = "loop" /\ command = cmd /\ idx <= Len(list)

\* lines 501-509: the local path is no working copy
MirrorSkipNoLocal ==
    /\ InLoop("init", proj_list)
    /\ proj_list[idx].path \notin work_copies
    /\ idx' = idx + 1
    /\ Logged("no_local", GitName(proj_list[idx].name), "failed")
    /\ UNCHANGED <<resolveVars, argVars, envVars, dirVars,
                   pc, exit_code, proj_list, bare_repos, success_count>>

\* Named, as if the whole of mirror_repos_dir were removed
Named_All(name) == mirror_items

\* the items of mirror_repos_dir with this name
Named(name) == {it \in mirror_items : it.name = name}

\* lines 501-513 with 390-406: what is at the target is removed, git clone
\* --mirror succeeds
MirrorCloneOk ==
    /\ InLoop("init", proj_list)
    /\ proj_list[idx].path \in work_copies
    /\ LET target == GitName(proj_list[idx].name)
       IN /\ mirror_items' = (mirror_items \ Named(target)) \cup {Item(target, TRUE)}
          /\ Logged("clone", target, "ok")
    /\ idx' = idx + 1
    /\ success_count' = success_count + 1
    /\ UNCHANGED <<resolveVars, argVars, envVars, root_exists, repos_exists,
                   pc, exit_code, proj_list, bare_repos>>

\* lines 501-513 with 390-411: git clone fails; what was at the target is
\* gone, or still there when rmtree (ignore_errors=True) could not remove it
MirrorCloneFail ==
    /\ InLoop("init", proj_list)
    /\ proj_list[idx].path \in work_copies
    /\ LET target == GitName(proj_list[idx].name)
       IN /\ \/ mirror_items' = mirror_items \ Named(target)
             \/ Named(target) # {} /\ mirror_items' = mirror_items
          /\ Logged("clone", target, "failed")
    /\ idx' = idx + 1
    /\ UNCHANGED <<resolveVars, argVars, envVars, root_exists, repos_exists,
                   pc, exit_code, proj_list, bare_repos, success_count>>

\* lines 558-565 and the end of main
InitSummary ==
    /\ pc = "loop"
    /\ command = "init"
    /\ idx > Len(proj_list)
    /\ Exit(0)
    /\ Logged("summary", NoTarget, "ok")
    /\ UNCHANGED <<resolveVars, argVars, envVars, dirVars,
                   proj_list, bare_repos, idx, success_count>>

\* find_bare_repos (lines 587-597) as a set
Candidates == {it \in mirror_items : IsCandidate(it, skip_repos)}

\* lines 677-687: find_bare_repos returns a non-empty list, in the order
\* iterdir lists the directory
FindBareReposOk ==
    /\ pc = "find"
    /\ Candidates # {}
    /\ bare_repos' \in Orders(Candidates)
    /\ idx' = 1
    /\ success_count' = 0
    /\ pc' = "loop"
    /\ UNCHANGED <<resolveVars, argVars, envVars, dirVars, exit_code, proj_list, log>>

\* lines 677-681
FindBareReposEmpty ==
    /\ pc = "find"
    /\ Candidates = {}
    /\ Exit(1)
    /\ Logged("find", NoTarget, "fatal")
    /\ UNCHANGED <<resolveVars, argVars, envVars, dirVars,
                   proj_list, bare_repos, idx, success_count>>

\* what git rev-parse --is-bare-repository may give: (success, stdout)
BareAnswers == {<<FALSE, "">>, <<TRUE, "false">>, <<TRUE, "true">>}

\* lines 688-690 with 620-625: the bare check fails or does not say true
SyncNotBare ==
    /\ InLoop("sync", bare_repos)
    /\ \E a \in BareAnswers :
          /\ ~BareCheckPasses(a[1], a[2])
          /\ Logged("bare_check", bare_repos[idx].name, IF a[1] THEN a[2] ELSE "error")
    /\ idx' = idx + 1
    /\ UNCHANGED <<resolveVars, argVars, envVars, dirVars,
                   pc, exit_code, proj_list, bare_repos, success_count>>

\* lines 688-690 with 620-641: the check passes and git remote update runs
SyncFetch ==
    /\ InLoop("sync", bare_repos)
    /\ \E a \in BareAnswers, ok \in BOOLEAN :
          /\ BareCheckPasses(a[1], a[2])
          /\ log' = log \o << Event("bare_check", bare_repos[idx].name,
                                    IF a[1] THEN a[2] ELSE "error"),
                              Event("fetch", bare_repos[idx].name,
                                    IF ok THEN "ok" ELSE "failed") >>
          /\ success_count' = IF ok THEN success_count + 1 ELSE success_count
    /\ idx' = idx + 1
    /\ UNCHANGED <<resolveVars, argVars, envVars, dirVars,
                   pc, exit_code, proj_list, bare_repos>>

\* lines 692-696 and the end of main
SyncSummary ==
    /\ pc = "loop"
    /\ command = "sync"
    /\ idx > Len(bare_repos)
    /\ Exit(0)
    /\ Logged("summary", NoTarget, "ok")
    /\ UNCHANGED <<resolveVars, argVars, envVars, dirVars,
                   proj_list, bare_repos, idx, success_count>>

\* lines 797-799: Ctrl-C while the run is under way
Interrupt ==
    /\ pc \notin {"none", "exited"}
    /\ Exit(0)
    /\ Logged("interrupt", NoTarget, "ok")
    /\ UNCHANGED <<resolveVars, argVars, envVars, dirVars,
                   proj_list, bare_repos, idx, success_count>>

Next ==
    \/ Dispatch
    \/ CheckRootOk
    \/ CheckRootFail
    \/ CheckGitOk
    \/ CheckGitFail
    \/ CleanSkip
    \/ CleanAll
    \/ CleanPartly
    \/ EnsureRootOk
    \/ EnsureRootFail
    \/ EnsureReposOk
    \/ EnsureReposFail
    \/ ResolveLocalOk
    \/ ResolveLocalEmpty
    \/ FindGitReposRaises
    \/ MirrorSkipNoLocal
    \/ MirrorCloneOk
    \/ MirrorCloneFail
    \/ InitSummary
    \/ FindBareReposOk
    \/ FindBareReposEmpty
    \/ SyncNotBare
    \/ SyncFetch
    \/ SyncSummary
    \/ Interrupt

Spec == Init /\ [][Next]_vars

\* ------------------------------------------------------------------------
\* Claims about init and sync (checked under Spec)
\* ------------------------------------------------------------------------

Events == 1..Len(log)

EventsOf(op) == {k \in Events : log[k].op = op}

\* the run reached its final summary
Summarised == pc = "exited" /\ log # <<>> /\ log[Len(log)].op = "summary"

\* the run ended and was not interrupted
Finished == pc = "exited" /\ log # <<>> /\ log[Len(log)].op # "interrupt"

\* C6 as stated: the list of parse_west_yml_for_local holds each name at most
\* once, so that init with --west-yml clones at most once into any <name>.git.
C6_LocalNamesOnce ==
    /\ \A i, j \in 1..Len(proj_list) : i # j => proj_list[i].name # proj_list[j].name
    /\ \A k, l \in EventsOf("clone") : k # l => log[k].target # log[l].target

\* the items of the mirror directory that are directories named *.git and
\* are not excluded
Eligible ==
    {it \in mirror_items : it.dir /\ it.name[Len(it.name)] = ".git" /\ it.name \notin skip_repos}

\* C9: in a sync run every fetch is on a directory of the mirror directory
\* named *.git, not excluded, right after its bare check said true, and no
\* name is fetched twice; a name whose bare check failed or said false is
\* never fetched; and at the summary every such directory was checked once,
\* fetched if the check said true, the failed checks count as failures and
\* the successes are the fetches that succeeded.
C9_SyncFetches ==
    /\ \A k \in EventsOf("fetch") :
          /\ \E it \in Eligible : it.name = log[k].target
          /\ k > 1
          /\ log[k - 1] = Event("bare_check", log[k].target, "true")
    /\ \A k, l \in EventsOf("fetch") : k # l => log[k].target # log[l].target
    /\ \A k \in EventsOf("bare_check") :
          log[k].res # "true" => \A l \in EventsOf("fetch") : log[l].target # log[k].target
    /\ (Summarised /\ command = "sync") =>
          /\ \A it \in Eligible :
                /\ Cardinality({k \in EventsOf("bare_check") : log[k].target = it.name}) = 1
                /\ \A k \in EventsOf("bare_check") :
                      (log[k].target = it.name /\ log[k].res = "true")
                          => \E l \in EventsOf("fetch") : log[l].target = it.name
          /\ Len(bare_repos) = Cardinality(Eligible)
          /\ success_count = Cardinality({k \in EventsOf("fetch") : log[k].res = "ok"})
          /\ Len(bare_repos) - success_count
                >= Cardinality({k \in EventsOf("bare_check") : log[k].res # "true"})

\* a sync run reached its summary: the mirror directory holds an excluded
\* *.git directory, a candidate failed its bare check and a candidate that
\* came after it was fetched
C9_Witness ==
    /\ Summarised
    /\ command = "sync"
    /\ \E it \in mirror_items : it.dir /\ EndsWithGit(it.name) /\ it.name \in skip_repos
    /\ \E k \in EventsOf("bare_check"), l \in EventsOf("fetch") :
          log[k].res # "true" /\ k < l /\ log[l].res = "ok"

\* a fatal condition of the run: no project root (init), no git, a directory
\* that cannot be removed (init without --west-yml) or created, an empty
\* resolved, discovered or candidate set
FatalCondition ==
    \/ command = "init" /\ ~is_root
    \/ ~git_ok
    \/ \E k \in Events : log[k].op \in {"mkdir", "rmtree"} /\ log[k].res = "fatal"
    \/ command = "init" /\ west_yml /\ ParseWestYmlForLocal(local_manifest) = <<>>
    \/ command = "init" /\ ~west_yml /\ cwd_repos = {}
    \/ command = "sync" /\ Eligible = {}

\* C10 as stated: a run that is not interrupted exits 0 when no fatal
\* condition occurs, whatever the per-item failures, and exits 1 when one
\* does.
C10_ExitCodeOnlyFatal ==
    Finished => (exit_code = IF FatalCondition THEN <<1>> ELSE <<0>>)

\* the mirror entries among the items of a directory: the directories
\* named <name>.git
EntriesOf(items) == {it \in items : it.dir /\ EndsWithGit(it.name)}

\* the mirror entries that existed before the run
EntriesBefore == EntriesOf(before.mirror_items)

\* the last clone into this target failed
LastCloneFailed(target) ==
    \E k \in EventsOf("clone") :
        /\ log[k] = Event("clone", target, "failed")
        /\ \A l \in EventsOf("clone") : log[l].target = target => l <= k

\* C11 as stated: after a sync run and after an init run without --clean-old
\* each mirror entry that existed before the run still exists.
C11_EntriesNeverDeleted ==
    (pc = "exited" /\ (command = "sync" \/ ~clean_old))
        => EntriesBefore \subseteq EntriesOf(mirror_items)

\* C11: a sync run leaves the items of the mirror directory as they were; in
\* an init run without --clean-old a mirror entry that existed before the run
\* is missing only when the run cloned into its name and the last such clone
\* failed (the target is removed before git clone --mirror runs), so that an
\* entry whose name the run did not clone into is kept.
C11_EntriesDeletedOnlyByReclone ==
    /\ command = "sync" => mirror_items = before.mirror_items
    /\ (command = "init" /\ ~clean_old) =>
          \A it \in EntriesBefore \ EntriesOf(mirror_items) : LastCloneFailed(it.name)

\* an init run without --clean-old reached its summary: of three entries
\* that existed before, one is gone after a failed clone into its name, one
\* was cloned again and one, which the run did not clone into, is kept
C11_Witness ==
    /\ Summarised
    /\ command = "init"
    /\ ~clean_old
    /\ \E gone, again, kept \in EntriesBefore :
          /\ gone \notin mirror_items
          /\ LastCloneFailed(gone.name)
          /\ again \in mirror_items
          /\ \E k \in EventsOf("clone") : log[k] = Event("clone", again.name, "ok")
          /\ kept \in mirror_items
          /\ \A k \in EventsOf("clone") : log[k].target # kept.name

\* the event that starts the processing of an item of the list
IsItemEvent(e) == e.op \in {"no_local", "clone", "bare_check"}

ItemLog == SelectSeq(log, IsItemEvent)

\* the target of each item of the list the run works through, in order
ItemTargets ==
    IF command = "sync"
    THEN [i \in 1..Len(bare_repos) |-> bare_repos[i].name]
    ELSE [i \in 1..Len(proj_list) |-> GitName(proj_list[i].name)]

\* the number of items the run has to work through
ItemCount ==
    IF command = "init" /\ ~west_yml THEN Cardinality(cwd_repos) ELSE Len(ItemTargets)

\* the per-item failures the run logged
Failures ==
    {k \in Events :
        \/ log[k].op = "no_local"
        \/ log[k].op \in {"clone", "fetch"} /\ log[k].res = "failed"
        \/ log[k].op = "bare_check" /\ log[k].res # "true"}

\* every item was processed, in the order of the list, and the successes and
\* the failures add up to the number of items
AllItemsProcessed ==
    /\ Len(ItemLog) = ItemCount
    /\ \A i \in 1..Len(ItemTargets) : ItemLog[i].target = ItemTargets[i]
    /\ success_count + Cardinality(Failures) = ItemCount

\* C12 as stated: in init with --west-yml, init without it and sync, a run
\* whose preconditions hold and whose item list is not empty, and that is not
\* interrupted, ends at its final summary with every item processed in list
\* order, whatever failed on the way, and successes + failures = items.
C12_FailureIsolation ==
    (Finished /\ ~FatalCondition) => (Summarised /\ AllItemsProcessed)

\* the mirror root as it is now, to compare with before
Now == [root_exists |-> root_exists, repos_exists |-> repos_exists,
        mirror_items |-> mirror_items]

\* the place of an init step in the order root check, client check,
\* clean-old, directory creation, resolution, per-item mirroring, summary
StepRank(e) ==
    CASE e.op = "root_check" -> 1
      [] e.op = "git_check" -> 2
      [] e.op = "rmtree" -> 3
      [] e.op = "mkdir" -> 4
      [] e.op \in {"resolve", "find_git_repos"} -> 5
      [] e.op \in {"no_local", "clone"} -> 6
      [] OTHER -> 7

GitCheckPassed == \E k \in Events : log[k] = Event("git_check", NoTarget, "ok")

\* C13 as stated: init runs its steps in the order root check, client
\* check, clean-old, directory creation, resolution, per-item mirroring; an
\* init run whose root check or client check fails exits 1 with the mirror
\* root as it was before the run; and in an init or a sync run the mirror
\* root is as it was before the run until the client check has passed.
C13_StepOrder ==
    /\ command = "init" =>
          /\ \A k, l \in Events : k < l => StepRank(log[k]) <= StepRank(log[l])
          /\ (\E k \in Events : log[k].op \in {"root_check", "git_check"}
                                   /\ log[k].res = "fatal")
                => (exit_code = <<1>> /\ Now = before)
    /\ ~GitCheckPassed => Now = before

\* ------------------------------------------------------------------------
\* Termination of parse_west_yml (checked under SpecResolve)
\* ------------------------------------------------------------------------

\* the elements of all_projects whose import made a recursive call
Calls == {r \in Results : src[r].call}

\* the names the entries of a list carry
NamesIn(projects) ==
    {projects[k].name : k \in {j \in 1..Len(projects) :
                                 projects[j].kind = "dict" /\ projects[j].name # Absent}}

\* the distinct names of the root document and of the nested ones
DocNames == NamesIn(root_projects) \cup UNION {NamesIn(fs[p].projects) : p \in Paths}

\* the length of the longest nested list
NestedLen ==
    CHOOSE n \in {Len(fs[p].projects) : p \in Paths} :
        \A p \in Paths : Len(fs[p].projects) <= n

\* what the run has done so far: two for each entry visited, with the calls
\* in progress taken off, and the position of parse_west_yml
Progress ==
    2 * Len(walk) - Len(stack)
        + (CASE rpc = "start" -> 0 [] rpc = "walk" -> 2 [] OTHER -> 3)

\* the seen-set holds the names of the result, all of them names of the
\* documents; every recursive call was made by an element of the result as
\* it was added under a name new to the seen-set, so no two calls were made
\* under one name, the calls are at most as many as the distinct names, the
\* calls in progress are distinct ones, and the entries visited are at most
\* those of the root list plus one nested list per call: a bound that the
\* documents fix, import cycles or not
RecursionBounded ==
    /\ processed_names = {all_projects[r].name : r \in Results}
    /\ processed_names \subseteq DocNames
    /\ \A r, q \in Calls : r # q => all_projects[r].name # all_projects[q].name
    /\ Cardinality(Calls) <= Cardinality(processed_names)
    /\ \A k \in 2..Len(stack) :
          /\ stack[k].by \in Calls
          /\ \A j \in 2..Len(stack) : j # k => stack[j].by # stack[k].by
    /\ Len(stack) <= 1 + Cardinality(Calls)
    /\ Len(walk) <= Len(root_projects) + Cardinality(Calls) * NestedLen

\* C14: parse_west_yml terminates on every set of documents, import cycles
\* included: every step of the resolver moves Progress up, and Progress is
\* bounded by what the documents fix, since each recursive call is made by an
\* element added under a name new to the seen-set, the seen-set only grows,
\* and the calls are therefore at most as many as the distinct names.
C14_Terminates ==
    /\ []RecursionBounded
    /\ [][/\ Progress' > Progress
          /\ processed_names \subseteq processed_names'
          /\ Len(stack') > Len(stack) =>
                /\ Len(stack) >= 1 => Cardinality(processed_names') > Cardinality(processed_names)
                /\ Len(stack) >= 1 => src'[Len(src')].call]_vars

\* parse_west_yml returned on a cyclic import: an element of the result read
\* from a nested document imported that same document, the call it made met
\* the element's own name again, and a second call was made
C14_Witness ==
    /\ rpc = "done"
    /\ Cardinality(Calls) >= 2
    /\ \E r \in Calls :
          /\ src[r].doc = SubPath(src[r].entry)
          /\ src[r].by # 0
          /\ \E w \in Visited : walk[w].by = r /\ walk[w].entry.name = all_projects[r].name

====
